---- MODULE Spec2Model ----
(***************************************************************************)
(* Model of the memory-history writer: Chunk (chunk.h), Slice and          *)
(* SliceBuilder (slice.h) and DbWriter (db_writer.h / db_writer.cpp).      *)
(*                                                                         *)
(* Unsigned 64-bit addresses and transitions are scaled to AddrBits and    *)
(* TransBits bits; every addition the code performs on them is taken       *)
(* modulo 2^bits, as the code's unsigned arithmetic does.                  *)
(* The sizes offered to insert/push stay below 2^32, so the narrowing of    *)
(* insert's 64-bit size to Chunk's 32-bit size is exact on them.           *)
(* The SQL store (rvnsqlite) is an external library: a bound value is      *)
(* stored as it is, rowids are assigned 1, 2, 3, ... per table.            *)
(***************************************************************************)
EXTENDS Integers, Sequences, FiniteSets, TLC

\* Width of an address (std::uint64_t in the code).
AddrBits == 2
AddrMod == 2 ^ AddrBits
MaxAddr == AddrMod - 1
Addr == 0 .. MaxAddr

\* Width of a transition (std::uint64_t in the code).
TransBits == 2
TransMod == 2 ^ TransBits
Trans == 0 .. (TransMod - 1)

\* Largest access size offered to a SliceBuilder driven directly (0 is offered
\* too: it is the invalid size).
MaxSize == 2
\* Largest access size offered to a DbWriter: large enough for an access that
\* starts below a one-byte chunk and ends above it.
MaxPushSize == 3
\* Largest value a limit of a builder is configured with.
MaxLimit == 2
\* Number of accepted inserts explored on a single SliceBuilder.
MaxInserts == 3
\* Number of accepted pushes explored on a DbWriter.
MaxPush == 3
\* Number of chunks constructed when Chunk is driven directly.
MaxChunkNodes == 3

\* Operation bytes.
Execute == 1
Write == 2
Read == 4

Min2(a, b) == IF a <= b THEN a ELSE b
Max2(a, b) == IF a >= b THEN a ELSE b

RECURSIVE SortAsc(_)
\* The elements of a finite set of integers, ascending (std::map iteration order).
SortAsc(S) ==
    IF S = {} THEN << >>
    ELSE LET m == CHOOSE x \in S : \A y \in S : x <= y
         IN << m >> \o SortAsc(S \ {m})

Range(s) == { s[i] : i \in 1 .. Len(s) }

\* std::experimental::optional<std::size_t>: unset, or a value.
Unset == [set |-> FALSE, value |-> 0]
Some(v) == [set |-> TRUE, value |-> v]

(***************************************************************************)
(* State: a DbWriter with its store, a SliceBuilder driven directly, and   *)
(* two Chunk objects driven directly.                                      *)
(***************************************************************************)

VARIABLES
    limits,                 \* the three limits create_slices gives every builder
    read_slice_builder,
    write_slice_builder,
    current_access_list,
    freed,                  \* the logged nodes already destroyed, each with the insert that destroyed it
    slices,                 \* table slices: the row at position i has rowid i
    chunks,                 \* table chunks: the row at position i has rowid i
    accesses,               \* table accesses: each row carries its rowid
    w_state,                \* "open", "discarded", "taken", "destroyed" or "failed"
    w_last,                 \* how the last call on the writer ended
    pushed,                 \* the accepted pushes, in order
    discarded               \* the arguments discard_after was called with

wvars == << limits, read_slice_builder, write_slice_builder, current_access_list, freed,
            slices, chunks, accesses, w_state, w_last, pushed, discarded >>

VARIABLES
    sb,          \* the SliceBuilder
    sb_slice,    \* the Slice build() returned
    sb_phase,    \* "building", then "built"
    sb_hist,     \* the accepted inserts, in order: the node each returned
    sb_freed,    \* the returned nodes that have been destroyed since
    sb_last      \* how the last insert call ended

sbvars == << sb, sb_slice, sb_phase, sb_hist, sb_freed, sb_last >>

VARIABLES
    ck,          \* the two Chunk objects a and b: each << >> (not constructed, or moved from) or << chunk >>
    ck_nodes,    \* the number of chunks constructed so far
    ck_last      \* how the last call on a chunk ended

ckvars == << ck, ck_nodes, ck_last >>

vars == << wvars, sbvars, ckvars >>

(***************************************************************************)
(* chunk.h                                                                 *)
(***************************************************************************)

\* struct ChunkAccess; id is the identity (the address) of the node.
ChunkAccess(id, transition, address, size) ==
    [id |-> id, transition |-> transition, address |-> address, size |-> size]

\* Chunk::Chunk(transition, address, size): no check, address_last wraps.
\* accesses is the intrusive list from accesses_ on; last_access is the node
\* last_access_ points to.
Chunk(id, transition, address, size) ==
    [address_first |-> address,
     address_last  |-> (address + size + AddrMod - 1) % AddrMod,
     accesses      |-> << ChunkAccess(id, transition, address, size) >>,
     last_access   |-> id,
     size          |-> 1]

\* Chunk::overlaps: address_last() + 1 is computed in the address width.
overlaps(a, b) ==
    ~ (\/ (a.address_last + 1) % AddrMod <= b.address_first
       \/ (b.address_last + 1) % AddrMod <= a.address_first)

\* Chunk::is_contiguous
is_contiguous(a, b) ==
    \/ (a.address_last + 1) % AddrMod = b.address_first
    \/ (b.address_last + 1) % AddrMod = a.address_first

\* The node last_access_ designates has a successor (merge_in's two tests).
NextIsNotNull(c) ==
    c.accesses = << >> \/ c.accesses[Len(c.accesses)].id # c.last_access

\* Chunk::merge_in throws std::logic_error.
merge_in_throws(a, b) == NextIsNotNull(a) \/ NextIsNotNull(b)

\* merge_in that leaves last_access_ on the old tail.
merge_in_keeps_tail(a, b) ==
    [address_first |-> Min2(a.address_first, b.address_first),
     address_last  |-> Max2(a.address_last, b.address_last),
     accesses      |-> a.accesses \o b.accesses,
     last_access   |-> a.last_access,
     size          |-> a.size + b.size]

\* Chunk::merge_in(other): the state of *this afterwards.
merge_in(a, b) ==
    [address_first |-> Min2(a.address_first, b.address_first),
     address_last  |-> Max2(a.address_last, b.address_last),
     accesses      |-> a.accesses \o b.accesses,
     last_access   |-> b.last_access,
     size          |-> a.size + b.size]

(***************************************************************************)
(* slice.h                                                                 *)
(***************************************************************************)

\* Slice: access_chunks_ is a map from key to Chunk, a function here.
EmptyMap == [k \in {} |-> 0]
Slice == [access_chunks |-> EmptyMap, transition_first |-> 0, transition_last |-> 0]

\* A freshly constructed SliceBuilder with its four optional limits.
SliceBuilder(overlap, touch, tlimit, acount) ==
    [slice |-> Slice,
     chunk_size_touch_limit   |-> touch,
     chunk_size_overlap_limit |-> overlap,
     transition_limit         |-> tlimit,
     access_count_limit       |-> acount,
     stop_at_next_transition  |-> FALSE,
     access_count             |-> 0]

Keys(m) == DOMAIN m

\* Slice::access_count(): counts the accesses chunk by chunk.
RECURSIVE SumSizes(_, _)
SumSizes(m, ks) ==
    IF ks = {} THEN 0
    ELSE LET k == CHOOSE x \in ks : TRUE
         IN m[k].size + SumSizes(m, ks \ {k})

slice_access_count(s) == SumSizes(s.access_chunks, Keys(s.access_chunks))

RECURSIVE WalkOverlaps(_, _, _)
\* The while loop of insert: the successors of upper_bound(address), in key
\* order, up to the first one that does not overlap.
WalkOverlaps(m, nexts, c) ==
    IF nexts = << >> THEN << >>
    ELSE IF overlaps(m[Head(nexts)], c)
         THEN << Head(nexts) >> \o WalkOverlaps(m, Tail(nexts), c)
         ELSE << >>

\* The iterators insert collects in `overlaps`: the predecessor of
\* upper_bound(address) when it overlaps, then the walk forward.
CollectOverlaps(m, address, c) ==
    LET below == { k \in Keys(m) : k <= address }
        above == { k \in Keys(m) : k > address }
        prev  == IF below = {} THEN << >>
                 ELSE LET p == CHOOSE k \in below : \A j \in below : j <= k
                      IN IF overlaps(m[p], c) THEN << p >> ELSE << >>
    IN prev \o WalkOverlaps(m, SortAsc(above), c)

RECURSIVE MergeAll(_, _, _)
\* The for loop of insert: access_chunk.merge_in(each overlap), in order.
MergeAll(c, m, ov) ==
    IF ov = << >> THEN c
    ELSE MergeAll(merge_in(c, m[Head(ov)]), m, Tail(ov))

RECURSIVE SumOverlaps(_, _)
SumOverlaps(m, ov) ==
    IF ov = << >> THEN 0 ELSE m[Head(ov)].size + SumOverlaps(m, Tail(ov))

\* std::map::insert(pair): inserts only when the key is not in the map.
MapInsert(m, k, c) ==
    IF k \in Keys(m) THEN m
    ELSE [x \in Keys(m) \cup {k} |-> IF x = k THEN c ELSE m[x]]

MapErase(m, ks) == [x \in Keys(m) \ ks |-> m[x]]

\* What insert hands back: status is "ok" (a pointer), "refused" (nullptr) or
\* "invalid_argument" (the exception); b is the builder afterwards; freed are
\* the nodes destroyed with the temporary chunk when the map kept its old
\* entry (the returned pointer is then one of them).
InsertResult(status, b, gone) == [status |-> status, b |-> b, freed |-> gone]

\* The tail of SliceBuilder::insert, from the construction of access_chunk on.
InsertChunk(b, id, icount, address, size) ==
    LET m     == b.slice.access_chunks
        c     == Chunk(id, icount, address, size)
        wasEmpty == Keys(m) = {}
        b1    == IF wasEmpty THEN [b EXCEPT !.slice.transition_first = icount] ELSE b
        ov    == IF wasEmpty THEN << >> ELSE CollectOverlaps(m, address, c)
        total == c.size + SumOverlaps(m, ov)
        over  == b.chunk_size_overlap_limit.set /\ total > b.chunk_size_overlap_limit.value
    IN IF over /\ icount > b1.slice.transition_last
       THEN InsertResult("refused", b1, {})
       ELSE LET b2     == IF over THEN [b1 EXCEPT !.stop_at_next_transition = TRUE] ELSE b1
                merged == MergeAll(c, m, ov)
                erased == MapErase(m, Range(ov))
                key    == merged.address_first
                kept   == key \notin Keys(erased)
                b3     == [b2 EXCEPT !.slice.access_chunks = MapInsert(erased, key, merged),
                                     !.slice.transition_last = icount,
                                     !.access_count = @ + 1]
            IN InsertResult("ok", b3,
                            IF kept THEN {} ELSE { merged.accesses[i].id : i \in 1 .. Len(merged.accesses) })

\* insert without its first test, the refusal of a new transition once
\* stop_at_next_transition_ is raised.
insert_no_sticky_refusal(b, id, icount, address, size) ==
    IF size = 0 THEN InsertResult("invalid_argument", b, {})
    ELSE LET full == b.access_count_limit.set /\ b.access_count >= b.access_count_limit.value
         IN IF full /\ icount > b.slice.transition_last
            THEN InsertResult("refused", b, {})
            ELSE LET b1 == IF full THEN [b EXCEPT !.stop_at_next_transition = TRUE] ELSE b
                     m  == b1.slice.access_chunks
                 IN IF (address + AddrMod - 1 + size) % AddrMod < address
                    THEN InsertResult("invalid_argument", b1, {})
                    ELSE IF Keys(m) # {} /\ icount < b1.slice.transition_last
                    THEN InsertResult("invalid_argument", b1, {})
                    ELSE IF /\ b1.transition_limit.set
                            /\ Keys(m) # {}
                            /\ (icount + TransMod - b1.slice.transition_first + 1) % TransMod
                                   > b1.transition_limit.value
                    THEN InsertResult("refused", b1, {})
                    ELSE InsertChunk(b1, id, icount, address, size)

\* insert with a hard access count limit: a full builder refuses every access,
\* also one of its current transition.
insert_hard_access_count(b, id, icount, address, size) ==
    IF size = 0 THEN InsertResult("invalid_argument", b, {})
    ELSE IF icount > b.slice.transition_last /\ b.stop_at_next_transition
    THEN InsertResult("refused", b, {})
    ELSE LET full == b.access_count_limit.set /\ b.access_count >= b.access_count_limit.value
         IN IF full
            THEN InsertResult("refused", b, {})
            ELSE LET m == b.slice.access_chunks
                 IN IF (address + AddrMod - 1 + size) % AddrMod < address
                    THEN InsertResult("invalid_argument", b, {})
                    ELSE IF Keys(m) # {} /\ icount < b.slice.transition_last
                    THEN InsertResult("invalid_argument", b, {})
                    ELSE IF /\ b.transition_limit.set
                            /\ Keys(m) # {}
                            /\ (icount + TransMod - b.slice.transition_first + 1) % TransMod
                                   > b.transition_limit.value
                    THEN InsertResult("refused", b, {})
                    ELSE InsertChunk(b, id, icount, address, size)

\* insert without its test of a transition going backward.
insert_no_backward_check(b, id, icount, address, size) ==
    IF size = 0 THEN InsertResult("invalid_argument", b, {})
    ELSE IF icount > b.slice.transition_last /\ b.stop_at_next_transition
    THEN InsertResult("refused", b, {})
    ELSE LET full == b.access_count_limit.set /\ b.access_count >= b.access_count_limit.value
         IN IF full /\ icount > b.slice.transition_last
            THEN InsertResult("refused", b, {})
            ELSE LET b1 == IF full THEN [b EXCEPT !.stop_at_next_transition = TRUE] ELSE b
                     m  == b1.slice.access_chunks
                 IN IF (address + AddrMod - 1 + size) % AddrMod < address
                    THEN InsertResult("invalid_argument", b1, {})
                    ELSE IF /\ b1.transition_limit.set
                            /\ Keys(m) # {}
                            /\ (icount + TransMod - b1.slice.transition_first + 1) % TransMod
                                   > b1.transition_limit.value
                    THEN InsertResult("refused", b1, {})
                    ELSE InsertChunk(b1, id, icount, address, size)

\* SliceBuilder::insert(icount, address, size); id names the node it allocates.
insert(b, id, icount, address, size) ==
    IF size = 0 THEN InsertResult("invalid_argument", b, {})
    ELSE IF icount > b.slice.transition_last /\ b.stop_at_next_transition
    THEN InsertResult("refused", b, {})
    ELSE LET full == b.access_count_limit.set /\ b.access_count >= b.access_count_limit.value
         IN IF full /\ icount > b.slice.transition_last
            THEN InsertResult("refused", b, {})
            ELSE LET b1 == IF full THEN [b EXCEPT !.stop_at_next_transition = TRUE] ELSE b
                     m  == b1.slice.access_chunks
                 IN IF (address + AddrMod - 1 + size) % AddrMod < address
                    THEN InsertResult("invalid_argument", b1, {})
                    ELSE IF Keys(m) # {} /\ icount < b1.slice.transition_last
                    THEN InsertResult("invalid_argument", b1, {})
                    ELSE IF /\ b1.transition_limit.set
                            /\ Keys(m) # {}
                            /\ (icount + TransMod - b1.slice.transition_first + 1) % TransMod
                                   > b1.transition_limit.value
                    THEN InsertResult("refused", b1, {})
                    ELSE InsertChunk(b1, id, icount, address, size)

RECURSIVE MergeLoop_no_limit(_, _, _, _)
\* The loop of merge without the touch-limit test.
MergeLoop_no_limit(m, current, nexts, touch) ==
    IF nexts = << >> THEN m
    ELSE LET n == Head(nexts)
         IN IF is_contiguous(m[current], m[n])
            THEN MergeLoop_no_limit([x \in Keys(m) \ {n} |->
                                        IF x = current THEN merge_in(m[current], m[n]) ELSE m[x]],
                                    current, Tail(nexts), touch)
            ELSE MergeLoop_no_limit(m, n, Tail(nexts), touch)

RECURSIVE MergeLoop(_, _, _, _)
\* The for loop of SliceBuilder::merge: current is the key of the chunk being
\* grown, nexts the keys still to visit.
MergeLoop(m, current, nexts, touch) ==
    IF nexts = << >> THEN m
    ELSE LET n == Head(nexts)
         IN IF /\ is_contiguous(m[current], m[n])
               /\ (~ touch.set \/ m[current].size + m[n].size <= touch.value)
            THEN MergeLoop([x \in Keys(m) \ {n} |->
                               IF x = current THEN merge_in(m[current], m[n]) ELSE m[x]],
                           current, Tail(nexts), touch)
            ELSE MergeLoop(m, n, Tail(nexts), touch)

\* SliceBuilder::merge
merge(b) ==
    LET m == b.slice.access_chunks
    IN IF Keys(m) = {} THEN b
       ELSE LET ks == SortAsc(Keys(m))
            IN [b EXCEPT !.slice.access_chunks =
                            MergeLoop(m, Head(ks), Tail(ks), b.chunk_size_touch_limit)]

\* SliceBuilder::build() &&: the Slice it returns.
build(b) == merge(b).slice

(***************************************************************************)
(* A single SliceBuilder driven directly (test_slice.cpp): any limits,     *)
(* inserts, then build().                                                  *)
(***************************************************************************)

\* The values a limit is configured with.
LimitChoices == {Unset} \cup { Some(v) : v \in 0 .. MaxLimit }

SizeInputs == 0 .. MaxSize

SbInit ==
    /\ \E o \in LimitChoices, tl \in LimitChoices, a \in LimitChoices :
          sb = SliceBuilder(o, Unset, tl, a)
    /\ sb_slice = Slice
    /\ sb_phase = "building"
    /\ sb_hist = << >>
    /\ sb_freed = {}
    /\ sb_last = "none"
    /\ limits = [overlap_limit |-> 1, touch_limit |-> 1, access_count_limit |-> 1]
    /\ read_slice_builder = SliceBuilder(Unset, Unset, Unset, Unset)
    /\ write_slice_builder = SliceBuilder(Unset, Unset, Unset, Unset)
    /\ current_access_list = << >>
    /\ freed = {}
    /\ slices = << >>
    /\ chunks = << >>
    /\ accesses = << >>
    /\ w_state = "unused"
    /\ w_last = "none"
    /\ pushed = << >>
    /\ discarded = << >>
    /\ ck = << << >>, << >> >>
    /\ ck_nodes = 0
    /\ ck_last = "none"

\* b.insert(icount, address, size)
SbInsert(icount, address, size) ==
    /\ sb_phase = "building"
    /\ Len(sb_hist) < MaxInserts
    /\ LET id == Len(sb_hist) + 1
           r  == insert(sb, id, icount, address, size)
       IN /\ sb' = r.b
          /\ sb_last' = r.status
          /\ sb_hist' = IF r.status = "ok"
                        THEN Append(sb_hist, ChunkAccess(id, icount, address, size))
                        ELSE sb_hist
          /\ sb_freed' = sb_freed \cup r.freed
    /\ UNCHANGED << sb_slice, sb_phase, wvars, ckvars >>

\* b.chunk_size_touch_limit(touch) when touch is set, then std::move(b).build().
\* insert never reads the touch limit, so setting it here or before the first
\* insert gives the same slice.
SbBuild(touch) ==
    /\ sb_phase = "building"
    /\ sb' = [sb EXCEPT !.chunk_size_touch_limit = touch]
    /\ sb_slice' = build(sb')
    /\ sb_phase' = "built"
    /\ UNCHANGED << sb_hist, sb_freed, sb_last, wvars, ckvars >>

SbNext ==
    \/ \E icount \in Trans, address \in Addr, size \in SizeInputs :
          SbInsert(icount, address, size)
    \/ \E touch \in LimitChoices : SbBuild(touch)

SpecBuilder == SbInit /\ [][SbNext]_vars

(***************************************************************************)
(* Two Chunk objects a (ck[1]) and b (ck[2]) driven directly               *)
(* (the chunk unit test): construction, then merges in either direction.  *)
(***************************************************************************)

\* The transitions chunks are constructed with.
ChunkTransitions == {0, TransMod - 1}

CkInit ==
    /\ ck = << << >>, << >> >>
    /\ ck_nodes = 0
    /\ ck_last = "none"
    /\ sb = SliceBuilder(Unset, Unset, Unset, Unset)
    /\ sb_slice = Slice
    /\ sb_phase = "unused"
    /\ sb_hist = << >>
    /\ sb_freed = {}
    /\ sb_last = "none"
    /\ limits = [overlap_limit |-> 1, touch_limit |-> 1, access_count_limit |-> 1]
    /\ read_slice_builder = SliceBuilder(Unset, Unset, Unset, Unset)
    /\ write_slice_builder = SliceBuilder(Unset, Unset, Unset, Unset)
    /\ current_access_list = << >>
    /\ freed = {}
    /\ slices = << >>
    /\ chunks = << >>
    /\ accesses = << >>
    /\ w_state = "unused"
    /\ w_last = "none"
    /\ pushed = << >>
    /\ discarded = << >>

\* Chunk a(transition, address, size) for i = 1, Chunk b(...) for i = 2: the
\* constructor has no failure path.
CkConstruct(i, transition, address, size) ==
    /\ ck[i] = << >>
    /\ ck_nodes < MaxChunkNodes
    /\ ck' = [ck EXCEPT ![i] = << Chunk(ck_nodes + 1, transition, address, size) >>]
    /\ ck_nodes' = ck_nodes + 1
    /\ ck_last' = "ok"
    /\ UNCHANGED << wvars, sbvars >>

\* a.merge_in(std::move(b)) for i = 1, b.merge_in(std::move(a)) for i = 2.
\* When merge_in throws, the bounds of *this are already assigned and the
\* other chunk keeps its list.
CkMergeIn(i) ==
    /\ ck[1] # << >> /\ ck[2] # << >>
    /\ LET this   == ck[i][1]
           other  == ck[3 - i][1]
           thrown == [merge_in(this, other) EXCEPT !.accesses = this.accesses,
                                                   !.last_access = this.last_access,
                                                   !.size = this.size]
       IN IF merge_in_throws(this, other)
          THEN /\ ck' = [ck EXCEPT ![i] = << thrown >>]
               /\ ck_last' = "logic_error"
          ELSE /\ ck' = [ck EXCEPT ![i] = << merge_in(this, other) >>, ![3 - i] = << >>]
               /\ ck_last' = "ok"
    /\ UNCHANGED << ck_nodes, wvars, sbvars >>

CkNext ==
    \/ \E i \in 1 .. 2, transition \in ChunkTransitions, address \in Addr, size \in SizeInputs :
          CkConstruct(i, transition, address, size)
    \/ \E i \in 1 .. 2 : CkMergeIn(i)

SpecChunk == CkInit /\ [][CkNext]_vars

(***************************************************************************)
(* db_writer.h / db_writer.cpp                                             *)
(***************************************************************************)

\* struct MemoryAccess
MemoryAccess(transition_id, physical_address, virtual_address, size, has_virtual_address, operation) ==
    [transition_id |-> transition_id, physical_address |-> physical_address,
     virtual_address |-> virtual_address, size |-> size,
     has_virtual_address |-> has_virtual_address, operation |-> operation]

\* struct AccessInfo; chunk_access is the node pointer. src is the position of
\* the push in the history of accepted pushes (not a field of the code).
AccessInfo(chunk_access, has_virtual_address, virtual_address, operation, src) ==
    [chunk_access |-> chunk_access, has_virtual_address |-> has_virtual_address,
     virtual_address |-> virtual_address, operation |-> operation, src |-> src]

\* A nullable column: SQL NULL, or a value.
Null == [null |-> TRUE, value |-> 0]
NotNull(v) == [null |-> FALSE, value |-> v]

\* create_slices that leaves the access count limit unset.
create_slices_no_access_count_limit(l) ==
    SliceBuilder(Some(l.overlap_limit), Some(l.touch_limit), Unset, Unset)

\* DbWriter::create_slices: a fresh builder with the writer's limits and no
\* transition limit.
create_slices(l) == SliceBuilder(Some(l.overlap_limit), Some(l.touch_limit), Unset, Some(l.access_count_limit))

\* insert_slice: the bounding box of the slice row; "logic_error" when both
\* slices are empty.
insert_slice(read_slice, write_slice) ==
    LET rempty == Keys(read_slice.access_chunks) = {}
        wempty == Keys(write_slice.access_chunks) = {}
        tf == Min2(read_slice.transition_first, write_slice.transition_first)
        tl == Max2(read_slice.transition_last, write_slice.transition_last)
    IN IF rempty /\ wempty THEN [status |-> "logic_error", row |-> << >>]
       ELSE IF rempty
       THEN [status |-> "ok",
             row |-> [transition_first |-> write_slice.transition_first,
                      transition_last |-> write_slice.transition_last]]
       ELSE IF wempty
       THEN [status |-> "ok",
             row |-> [transition_first |-> read_slice.transition_first,
                      transition_last |-> read_slice.transition_last]]
       ELSE [status |-> "ok", row |-> [transition_first |-> tf, transition_last |-> tl]]

\* struct ChunkWithDescription, one per chunk of a slice, in map order.
ChunkList(slice, operation) ==
    LET ks == SortAsc(Keys(slice.access_chunks))
    IN [i \in 1 .. Len(ks) |-> [operation |-> operation, chunk |-> slice.access_chunks[ks[i]]]]

RECURSIVE SortDesc(_, _, _)
\* std::sort of chunk_list by descending address_first. The sort is not stable:
\* where a read chunk and a write chunk start at the same address, read_first
\* (a set of addresses) says which of the two comes first.
SortDesc(list, a, read_first) ==
    IF a < 0 THEN << >>
    ELSE LET here == SelectSeq(list, LAMBDA e : e.chunk.address_first = a)
             rs   == SelectSeq(here, LAMBDA e : e.operation = Read)
             ws   == SelectSeq(here, LAMBDA e : e.operation = Write)
         IN (IF a \in read_first THEN rs \o ws ELSE ws \o rs) \o SortDesc(list, a - 1, read_first)

\* insert_chunks: the chunk rows, in the order they are inserted.
ChunkRows(sorted, slice_id) ==
    [i \in 1 .. Len(sorted) |->
        [slice_id |-> slice_id, phy_first |-> sorted[i].chunk.address_first,
         phy_last |-> sorted[i].chunk.address_last, operation |-> sorted[i].operation]]

\* insert_chunks: access_to_chunk_id, as the set of (node, chunk rowid) pairs;
\* base is the number of chunk rows already in the table.
AccessToChunkId(sorted, base) ==
    UNION { { [node |-> sorted[i].chunk.accesses[j], chunk_id |-> base + i]
              : j \in 1 .. Len(sorted[i].chunk.accesses) }
            : i \in 1 .. Len(sorted) }

\* The nodes of the built slices a destroyed node's pointer can compare equal
\* to: those allocated after it was destroyed, which may reuse its memory.
Reusers(map, f) == { e.node.id : e \in { x \in map : x.node.id > f.at } }

\* The outcomes of looking the logged pointers up in access_to_chunk_id: a
\* pointer to a live node finds that node; a pointer to a destroyed node finds
\* nothing (0) or a node that reuses its memory.
Lookups(map, log, fr) ==
    LET ids == { log[i].chunk_access : i \in 1 .. Len(log) }
        live == { e.node.id : e \in map }
        choices(h) ==
            IF h \in live THEN {h}
            ELSE LET f == CHOOSE x \in fr : x.h = h IN {0} \cup Reusers(map, f)
    IN { g \in [ids -> {0} \cup live] : \A h \in ids : g[h] \in choices(h) }

\* insert_accesses walking the log from its newest entry to its oldest.
AccessRows_reversed(map, log, lookup, base) ==
    [i \in 1 .. Len(log) |->
        LET a == log[Len(log) + 1 - i]
            e == CHOOSE x \in map : x.node.id = lookup[a.chunk_access]
        IN [rowid |-> base + i,
            chunk_id |-> e.chunk_id,
            transition |-> e.node.transition,
            linear |-> IF a.has_virtual_address THEN NotNull(a.virtual_address) ELSE Null,
            phy_first |-> e.node.address,
            size |-> e.node.size,
            operation |-> a.operation,
            src |-> a.src]]

\* insert_accesses: the access rows, in the order they are inserted; base is
\* the largest rowid of the table.
AccessRows(map, log, lookup, base) ==
    [i \in 1 .. Len(log) |->
        LET e == CHOOSE x \in map : x.node.id = lookup[log[i].chunk_access]
        IN [rowid |-> base + i,
            chunk_id |-> e.chunk_id,
            transition |-> e.node.transition,
            linear |-> IF log[i].has_virtual_address THEN NotNull(log[i].virtual_address) ELSE Null,
            phy_first |-> e.node.address,
            size |-> e.node.size,
            operation |-> log[i].operation,
            src |-> log[i].src]]

\* The largest rowid of a table whose rows carry their rowid, 0 when it is empty:
\* the store gives the next row this plus one.
MaxRowid(rows) == IF rows = << >> THEN 0 ELSE rows[Len(rows)].rowid

\* The three tables.
Tables(s, c, a) == [slices |-> s, chunks |-> c, accesses |-> a]

\* DbWriter::insert_slices on a non-empty access list: the tables after the
\* commit, or "logic_error" with the tables as they were before "begin".
\* read_first and lookup are the two choices the code leaves open.
insert_slices(rb, wb, log, fr, db, read_first, lookup) ==
    LET read_slice  == build(rb)
        write_slice == build(wb)
        srow   == insert_slice(read_slice, write_slice)
        slice_id == Len(db.slices) + 1
        sorted == SortDesc(ChunkList(read_slice, Read) \o ChunkList(write_slice, Write),
                           MaxAddr, read_first)
        map    == AccessToChunkId(sorted, Len(db.chunks))
        missing == \E i \in 1 .. Len(log) : lookup[log[i].chunk_access] = 0
    IN IF srow.status # "ok" \/ missing
       THEN [status |-> "logic_error", db |-> db]
       ELSE [status |-> "ok",
             db |-> Tables(Append(db.slices, srow.row),
                           db.chunks \o ChunkRows(sorted, slice_id),
                           db.accesses \o AccessRows(map, log, lookup, MaxRowid(db.accesses)))]

\* The choices insert_slices has on the current builders and access list.
ReadFirstChoices(rb, wb) ==
    SUBSET { a \in Addr :
               /\ \E k \in Keys(build(rb).access_chunks) : build(rb).access_chunks[k].address_first = a
               /\ \E k \in Keys(build(wb).access_chunks) : build(wb).access_chunks[k].address_first = a }

LookupChoices(rb, wb, log, fr) ==
    Lookups(AccessToChunkId(ChunkList(build(rb), Read) \o ChunkList(build(wb), Write), 0), log, fr)

\* insert_slices without its early return on an empty access list.
Flushes_always(rb, wb, log, fr, db) ==
    { insert_slices(rb, wb, log, fr, db, rf, lk) :
        rf \in ReadFirstChoices(rb, wb), lk \in LookupChoices(rb, wb, log, fr) }

\* The outcomes of a call of DbWriter::insert_slices: "skipped" on an empty
\* access list, else one outcome per choice left open.
Flushes(rb, wb, log, fr, db) ==
    IF log = << >> THEN { [status |-> "skipped", db |-> db] }
    ELSE { insert_slices(rb, wb, log, fr, db, rf, lk) :
             rf \in ReadFirstChoices(rb, wb), lk \in LookupChoices(rb, wb, log, fr) }

\* The limits create_slices hard-codes (100000, 1000, 10000000), scaled down
\* to 1 .. MaxLimit keeping touch <= overlap <= access count.
LimitInputs ==
    { [overlap_limit |-> o, touch_limit |-> t, access_count_limit |-> a] :
        o \in 1 .. MaxLimit, t \in 1 .. MaxLimit, a \in 1 .. MaxLimit }

\* The transitions offered to push and to discard_after.
MaxPushTransition == 1
PushTransitions == 0 .. MaxPushTransition
\* The addresses offered to push: the bottom, and two from which an access of
\* an offered size ends at the maximum address, or beyond it.
PushAddresses == {0, MaxAddr - 2, MaxAddr - 1}
\* The sizes offered to push: the invalid size, one byte, and the largest.
PushSizes == {0, 1, MaxPushSize}
\* The virtual side of a pushed access follows its physical address: the
\* bottom address is not mapped (has_virtual_address is false and the
\* virtual_address field holds a value that must not be stored), every other
\* address p is mapped at MaxAddr - p.
HasVirtual(p) == p # 0
VirtualOf(p) == IF p = 0 THEN 1 ELSE MaxAddr - p
PushOperations == {Read, Write, Execute}
\* The transition counts offered to discard_after: each is above some pushed
\* transitions and not above others.
DiscardInputs == 1 .. MaxPushTransition

PushInputs ==
    { MemoryAccess(t, p, VirtualOf(p), s, HasVirtual(p), op) :
        t \in PushTransitions, p \in PushAddresses,
        s \in PushSizes, op \in PushOperations }

Init ==
    /\ \E l \in { x \in LimitInputs : x.touch_limit <= x.overlap_limit
                                      /\ x.overlap_limit <= x.access_count_limit } :
          /\ limits = l
          /\ read_slice_builder = create_slices(l)
          /\ write_slice_builder = create_slices(l)
    /\ current_access_list = << >>
    /\ freed = {}
    /\ slices = << >>
    /\ chunks = << >>
    /\ accesses = << >>
    /\ w_state = "open"
    /\ w_last = "none"
    /\ pushed = << >>
    /\ discarded = << >>
    /\ sb = SliceBuilder(Unset, Unset, Unset, Unset)
    /\ sb_slice = Slice
    /\ sb_phase = "unused"
    /\ sb_hist = << >>
    /\ sb_freed = {}
    /\ sb_last = "none"
    /\ ck = << << >>, << >> >>
    /\ ck_nodes = 0
    /\ ck_last = "none"

SetTables(db) ==
    /\ slices' = db.slices
    /\ chunks' = db.chunks
    /\ accesses' = db.accesses

Db == Tables(slices, chunks, accesses)

\* The nodes an insert destroyed, each with the insert (its node id) that did it.
Freed(r, id) == { [h |-> x, at |-> id] : x \in r.freed }

\* DbWriter::push, first insert accepted.
PushAccepted(access, isRead, r1, id) ==
    /\ read_slice_builder' = IF isRead THEN r1.b ELSE read_slice_builder
    /\ write_slice_builder' = IF isRead THEN write_slice_builder ELSE r1.b
    /\ current_access_list' =
          Append(current_access_list,
                 AccessInfo(id, access.has_virtual_address, access.virtual_address,
                            access.operation, Len(pushed) + 1))
    /\ freed' = freed \cup Freed(r1, id)
    /\ pushed' = Append(pushed, access)
    /\ w_last' = "ok"
    /\ UNCHANGED << slices, chunks, accesses, w_state >>

\* DbWriter::push, first insert refused: insert_slices, create_slices, retry.
PushRefused(access, isRead, r1) ==
    \E f \in Flushes(IF isRead THEN r1.b ELSE read_slice_builder,
                     IF isRead THEN write_slice_builder ELSE r1.b,
                     current_access_list, freed, Db) :
       IF f.status = "logic_error"
       THEN /\ w_state' = "failed"
            /\ w_last' = "logic_error"
            /\ UNCHANGED << read_slice_builder, write_slice_builder, current_access_list,
                            freed, slices, chunks, accesses, pushed >>
       ELSE LET fresh == create_slices(limits)
                r2 == insert(fresh, 1, access.transition_id, access.physical_address, access.size)
            IN /\ SetTables(f.db)
               /\ read_slice_builder' = IF isRead THEN r2.b ELSE fresh
               /\ write_slice_builder' = IF isRead THEN fresh ELSE r2.b
               /\ current_access_list' =
                     IF r2.status = "ok"
                     THEN << AccessInfo(1, access.has_virtual_address, access.virtual_address,
                                        access.operation, Len(pushed) + 1) >>
                     ELSE << >>
               /\ freed' = IF r2.status = "ok" THEN Freed(r2, 1) ELSE {}
               /\ pushed' = IF r2.status = "ok" THEN Append(pushed, access) ELSE pushed
               /\ w_last' = CASE r2.status = "ok" -> "ok"
                              [] r2.status = "refused" -> "logic_error"
                              [] OTHER -> r2.status
               /\ UNCHANGED w_state

\* The switch on the operation with an Execute access taken for a Write.
builder_execute_as_write(access) ==
    IF access.operation = Read THEN "read" ELSE "write"

\* The switch at the head of DbWriter::push: the builder the access goes to,
\* or the exception thrown.
builder(access) ==
    CASE access.operation = Read -> "read"
      [] access.operation = Write -> "write"
      [] access.operation = Execute -> "runtime_error"
      [] OTHER -> "logic_error"

\* DbWriter::push(access)
Push(access) ==
    /\ w_state = "open"
    /\ Len(pushed) < MaxPush
    /\ IF builder(access) \notin {"read", "write"}
       THEN /\ w_last' = builder(access)
            /\ UNCHANGED << read_slice_builder, write_slice_builder, current_access_list,
                            freed, slices, chunks, accesses, w_state, pushed >>
       ELSE LET isRead == builder(access) = "read"
                id == Len(current_access_list) + 1
                r1 == insert(IF isRead THEN read_slice_builder ELSE write_slice_builder, id,
                             access.transition_id, access.physical_address, access.size)
            IN CASE r1.status = "ok" -> PushAccepted(access, isRead, r1, id)
                 [] r1.status = "refused" -> PushRefused(access, isRead, r1)
                 [] OTHER ->
                      /\ read_slice_builder' = IF isRead THEN r1.b ELSE read_slice_builder
                      /\ write_slice_builder' = IF isRead THEN write_slice_builder ELSE r1.b
                      /\ w_last' = r1.status
                      /\ UNCHANGED << current_access_list, freed, slices, chunks, accesses,
                                      w_state, pushed >>
    /\ UNCHANGED << limits, discarded, sbvars, ckvars >>

\* "select rowid from slices where transition_last >= T limit 1": the first
\* matching row in rowid order (a table scan) or in the order of idx_slices_1,
\* (transition_last, rowid); the empty set stands for no row.
FirstSliceFrom(rows, T) ==
    LET match == { i \in 1 .. Len(rows) : rows[i].transition_last >= T }
        byRowid == { i \in match : \A j \in match : i <= j }
        byIndex == { i \in match : \A j \in match :
                        \/ rows[i].transition_last < rows[j].transition_last
                        \/ rows[i].transition_last = rows[j].transition_last /\ i <= j }
    IN byRowid \cup byIndex

\* "select min(rowid) from chunks where slice_id = S limit 1"; the empty set
\* stands for NULL.
MinChunkOf(rows, S) ==
    LET match == { i \in 1 .. Len(rows) : rows[i].slice_id = S }
    IN { i \in match : \A j \in match : i <= j }

\* The delete statement of discard_after with the sub-selects evaluated to C
\* (a set holding the chunk rowid, empty for NULL).
DeleteFrom(rows, C, T) ==
    SelectSeq(rows, LAMBDA r : ~ (\E c \in C : r.chunk_id >= c /\ r.transition >= T))

\* The tables discard_after can leave, the slice sub-select picking row S.
DiscardOutcomes(db, T) ==
    LET first == FirstSliceFrom(db.slices, T)
    IN IF first = {} THEN { db }
       ELSE { Tables(db.slices, db.chunks, DeleteFrom(db.accesses, MinChunkOf(db.chunks, S), T)) :
                S \in first }

\* A call that starts with insert_slices and goes on when it did not throw:
\* discard_after goes on to its delete statement (cut is the transition
\* count), take and the destructor have nothing more to do (cut is Unset).
FlushThen(state, cut) ==
    \E f \in Flushes(read_slice_builder, write_slice_builder, current_access_list, freed, Db) :
       IF f.status = "logic_error"
       THEN /\ w_state' = "failed"
            /\ w_last' = "logic_error"
            /\ UNCHANGED << current_access_list, freed, slices, chunks, accesses >>
       ELSE /\ w_state' = state
            /\ w_last' = "ok"
            /\ current_access_list' = << >>
            /\ freed' = {}
            /\ \E db \in (IF cut.set THEN DiscardOutcomes(f.db, cut.value) ELSE { f.db }) :
                  SetTables(db)

\* DbWriter::discard_after(transition_count)
DiscardAfter(T) ==
    /\ w_state = "open"
    /\ FlushThen("discarded", Some(T))
    /\ discarded' = Append(discarded, T)
    /\ UNCHANGED << limits, read_slice_builder, write_slice_builder, pushed, sbvars, ckvars >>

\* DbWriter::take() &&
Take ==
    /\ w_state \in {"open", "discarded"}
    /\ FlushThen("taken", Unset)
    /\ UNCHANGED << limits, read_slice_builder, write_slice_builder, pushed, discarded, sbvars, ckvars >>

\* DbWriter::~DbWriter
Destroy ==
    /\ w_state \in {"open", "discarded", "taken"}
    /\ IF w_state = "taken"
       THEN /\ w_state' = "destroyed"
            /\ UNCHANGED << current_access_list, freed, slices, chunks, accesses, w_last >>
       ELSE FlushThen("destroyed", Unset)
    /\ UNCHANGED << limits, read_slice_builder, write_slice_builder, pushed, discarded, sbvars, ckvars >>

Next ==
    \/ \E access \in PushInputs : Push(access)
    \/ \E T \in DiscardInputs : DiscardAfter(T)
    \/ Take
    \/ Destroy

Spec == Init /\ [][Next]_vars

(***************************************************************************)
(* Properties.                                                             *)
(***************************************************************************)

\* The pushes so far came in trace order.
Ordered(seq) ==
    \A i \in 1 .. Len(seq), j \in 1 .. Len(seq) :
        i < j => seq[i].transition_id <= seq[j].transition_id

\* No pushed access has the maximum address as its last byte.
BelowTop(seq) ==
    \A i \in 1 .. Len(seq) : seq[i].physical_address + seq[i].size - 1 < MaxAddr

\* The chunks of a map are pairwise disjoint address intervals.
NonOverlapping(m) ==
    \A k1 \in Keys(m), k2 \in Keys(m) :
        k1 # k2 => \/ m[k1].address_last < m[k2].address_first
                   \/ m[k2].address_last < m[k1].address_first

\* C1: after any inserts and after build(), the chunks of a builder are
\* pairwise non-overlapping, also for accesses ending at the maximum address.
C1_NonOverlap ==
    /\ NonOverlapping(sb.slice.access_chunks)
    /\ NonOverlapping(sb_slice.access_chunks)

\* C2: for pushes in trace order, the slice rows have pairwise disjoint
\* transition ranges in rowid order: a lower rowid ends before a higher starts.
C2_SlicesDisjoint ==
    Ordered(pushed) =>
        \A i \in 1 .. Len(slices), j \in 1 .. Len(slices) :
            i < j => slices[i].transition_last < slices[j].transition_first

\* The access row a pushed access is to appear as (without rowid and chunk).
RowOf(a) ==
    [transition |-> a.transition_id,
     linear |-> IF a.has_virtual_address THEN NotNull(a.virtual_address) ELSE Null,
     phy_first |-> a.physical_address, size |-> a.size, operation |-> a.operation]

Attributes(r) ==
    [transition |-> r.transition, linear |-> r.linear, phy_first |-> r.phy_first,
     size |-> r.size, operation |-> r.operation]

\* C3: after accepted pushes and take(), with no discard_after, the accesses
\* table holds exactly one row per pushed access, with its attributes.
C3_RoundTrip ==
    (w_state = "taken" /\ discarded = << >>) =>
        /\ Len(accesses) = Len(pushed)
        /\ \A i \in 1 .. Len(pushed) : Attributes(accesses[i]) = RowOf(pushed[i])

C5_AcceptedInTraceOrder == Ordered(pushed)

\* C6: after trace-ordered pushes and discard_after(T), the accesses table
\* holds exactly the rows of the pushed accesses with transition < T.
C6_DiscardKeepsExactlyBelow ==
    (w_state = "discarded" /\ Ordered(pushed)) =>
        LET T == discarded[1]
            keep == { i \in 1 .. Len(pushed) : pushed[i].transition_id < T }
        IN /\ { r.src : r \in Range(accesses) } = keep
           /\ \A r \in Range(accesses) : Attributes(r) = RowOf(pushed[r.src])

\* The nodes reachable from the chunks of a map, as (key, node id) pairs.
NodesOf(m) ==
    UNION { { << k, m[k].accesses[i].id >> : i \in 1 .. Len(m[k].accesses) } : k \in Keys(m) }

\* Every returned node is reachable from exactly one chunk of the map.
EachInOneChunk(m, hist) ==
    \A i \in 1 .. Len(hist) :
        Cardinality({ x \in NodesOf(m) : x[2] = hist[i].id }) = 1

\* C7: every accepted access stays reachable from exactly one chunk:
\* access_count() is the number of accepted inserts and the sum of the chunk
\* sizes, before and after build().
C7_EveryAccessInOneChunk ==
    /\ sb_phase = "building" =>
          /\ sb.access_count = Len(sb_hist)
          /\ slice_access_count(sb.slice) = Len(sb_hist)
          /\ EachInOneChunk(sb.slice.access_chunks, sb_hist)
    /\ sb_phase = "built" =>
          /\ slice_access_count(sb_slice) = Len(sb_hist)
          /\ EachInOneChunk(sb_slice.access_chunks, sb_hist)

\* An access of the chunk covers the address.
Covered(c, x) ==
    \E i \in 1 .. Len(c.accesses) :
        /\ c.accesses[i].address <= x
        /\ x <= c.accesses[i].address + c.accesses[i].size - 1

\* C8: in a built slice every address of a chunk's range is covered by an
\* access of the chunk, also for chunks at address 0 or the maximum address.
C8_ChunksHaveNoHole ==
    sb_phase = "built" =>
        \A k \in Keys(sb_slice.access_chunks) :
            LET c == sb_slice.access_chunks[k]
            IN /\ c.address_first <= c.address_last
               /\ \A x \in c.address_first .. c.address_last : Covered(c, x)

\* The transitions of the access rows of slice row i.
TransitionsOf(i) ==
    { r.transition : r \in { x \in Range(accesses) : chunks[x.chunk_id].slice_id = i } }

\* C9: until a discard, every slice row's transition_first is the minimum and
\* its transition_last the maximum transition of the slice's access rows.
C9_SliceBoundsAreMinMax ==
    discarded = << >> =>
        \A i \in 1 .. Len(slices) :
            /\ slices[i].transition_first \in TransitionsOf(i)
            /\ slices[i].transition_last \in TransitionsOf(i)
            /\ \A t \in TransitionsOf(i) :
                  slices[i].transition_first <= t /\ t <= slices[i].transition_last

\* C10: of two chunk rows of one slice and one kind, the one with the lower
\* phy_last has the lower phy_first: in ascending phy_last order phy_first is
\* strictly increasing (rows of equal phy_last are left in either order).
C10_ChunkRowsAscending ==
    \A i \in 1 .. Len(chunks), j \in 1 .. Len(chunks) :
        (/\ i # j
         /\ chunks[i].slice_id = chunks[j].slice_id
         /\ chunks[i].operation = chunks[j].operation
         /\ chunks[i].phy_last < chunks[j].phy_last)
        => chunks[i].phy_first < chunks[j].phy_first

\* C11: every access row references one chunk row of a written slice, of the
\* access's own operation, whose address range contains the access's bytes;
\* rows of a later batch reference chunks of a later slice.
C11_AccessInsideItsChunk ==
    /\ \A r \in Range(accesses) :
          /\ r.chunk_id \in 1 .. Len(chunks)
          /\ LET c == chunks[r.chunk_id]
             IN /\ c.slice_id \in 1 .. Len(slices)
                /\ c.operation = r.operation
                /\ c.phy_first <= r.phy_first
                /\ r.phy_first + r.size - 1 <= c.phy_last
    /\ \A r1 \in Range(accesses), r2 \in Range(accesses) :
          (r1.rowid < r2.rowid /\ r1.chunk_id \in 1 .. Len(chunks) /\ r2.chunk_id \in 1 .. Len(chunks))
              => chunks[r1.chunk_id].slice_id <= chunks[r2.chunk_id].slice_id

\* The builder was given a touch limit no larger than its overlap limit, and
\* an overlap limit of at least 1.
TouchWithinOverlap(b) ==
    /\ b.chunk_size_overlap_limit.set /\ b.chunk_size_touch_limit.set
    /\ b.chunk_size_overlap_limit.value >= 1
    /\ b.chunk_size_touch_limit.value <= b.chunk_size_overlap_limit.value

\* The chunk holds an access at transition t.
HasAccessAt(c, t) == \E i \in 1 .. Len(c.accesses) : c.accesses[i].transition = t

\* C12: in a built slice with touch limit <= overlap limit L_o (L_o >= 1),
\* every chunk holds at most L_o accesses unless it holds an access at the
\* slice's last transition.
C12_ChunkSizeCapped ==
    (sb_phase = "built" /\ TouchWithinOverlap(sb)) =>
        \A k \in Keys(sb_slice.access_chunks) :
            LET c == sb_slice.access_chunks[k]
            IN \/ /\ c.size <= sb.chunk_size_overlap_limit.value
                  /\ Len(c.accesses) <= sb.chunk_size_overlap_limit.value
               \/ HasAccessAt(c, sb_slice.transition_last)

\* C12 witness: a built slice under such limits with a chunk filled to the
\* overlap limit by accesses of an earlier transition, and a chunk over the
\* limit that holds an access of the last transition.
C12_Witness ==
    /\ sb_phase = "built" /\ TouchWithinOverlap(sb)
    /\ \E k \in Keys(sb_slice.access_chunks) :
          /\ Len(sb_slice.access_chunks[k].accesses) = sb.chunk_size_overlap_limit.value
          /\ ~ HasAccessAt(sb_slice.access_chunks[k], sb_slice.transition_last)
    /\ \E k \in Keys(sb_slice.access_chunks) :
          Len(sb_slice.access_chunks[k].accesses) > sb.chunk_size_overlap_limit.value

\* C13 as stated: the access log never holds more than access_count_limit
\* accesses.
C13_LogWithinAccessCountLimit ==
    Len(current_access_list) <= limits.access_count_limit

\* The logged accesses of one kind pushed at a transition below t.
LoggedBelow(operation, t) ==
    { i \in 1 .. Len(current_access_list) :
        /\ current_access_list[i].operation = operation
        /\ pushed[current_access_list[i].src].transition_id < t }

\* C13 amended: the limit is soft and per builder. Of the logged accesses of
\* one kind, fewer than access_count_limit were pushed at a transition below
\* the transition_last of that kind's builder; accesses at the builder's last
\* transition are not capped.
C13_LogCappedBelowLastTransition ==
    w_state = "open" =>
        /\ Cardinality(LoggedBelow(Read, read_slice_builder.slice.transition_last))
              < limits.access_count_limit
        /\ Cardinality(LoggedBelow(Write, write_slice_builder.slice.transition_last))
              < limits.access_count_limit

\* C13 witness: the read builder holds more accesses than the limit, some of
\* them from a transition below its last one.
C13_Witness ==
    /\ w_state = "open"
    /\ read_slice_builder.access_count > limits.access_count_limit
    /\ Len(current_access_list) > limits.access_count_limit
    /\ LoggedBelow(Read, read_slice_builder.slice.transition_last) # {}

\* C14: a push of an Execute access raises a runtime error and changes
\* nothing: no builder, no table, not the access log.
C14_ExecuteRejected ==
    [][\A a \in PushInputs :
          (a.operation = Execute /\ Push(a)) =>
              /\ w_last' = "runtime_error"
              /\ UNCHANGED << read_slice_builder, write_slice_builder, current_access_list,
                              freed, slices, chunks, accesses, w_state, pushed >>]_vars

\* C14 witness: an Execute push was rejected by a writer that holds logged
\* accesses and has written a slice.
C14_Witness ==
    /\ w_last = "runtime_error"
    /\ current_access_list # << >>
    /\ slices # << >>

\* A Read or Write access of a size of at least 1 that does not run past the
\* maximum address.
WellFormed(a) ==
    /\ a.operation \in {Read, Write}
    /\ a.size >= 1
    /\ a.physical_address + a.size - 1 <= MaxAddr

\* The builder of the access's kind refuses it.
Refuses(a) ==
    insert(IF a.operation = Read THEN read_slice_builder ELSE write_slice_builder,
           Len(current_access_list) + 1,
           a.transition_id, a.physical_address, a.size).status = "refused"

\* C15: for trace-ordered well-formed pushes, a push its builder refuses
\* flushes both builders as one slice, and the retried insert is accepted:
\* the push succeeds and the access is the one logged access of the new pair.
C15_RefusedPushOpensNextSlice ==
    [][\A a \in PushInputs :
          (/\ WellFormed(a) /\ Ordered(Append(pushed, a))
           /\ Refuses(a) /\ Push(a)) =>
              /\ w_last' = "ok"
              /\ w_state' = "open"
              /\ Len(slices') = Len(slices) + 1
              /\ pushed' = Append(pushed, a)
              /\ Len(current_access_list') = 1
              /\ current_access_list'[1].src = Len(pushed')]_vars

\* C16: a flush with an empty access log is a no-op. take() and the
\* destructor then change no table and no builder and do not fail;
\* discard_after then writes no row (its delete statement may remove access
\* rows) and changes no builder.
C16_EmptyFlushIsNoOp ==
    [][current_access_list = << >> =>
          /\ (Take \/ Destroy) =>
                /\ UNCHANGED << slices, chunks, accesses >>
                /\ UNCHANGED << read_slice_builder, write_slice_builder, current_access_list >>
                /\ w_state' \in {"taken", "destroyed"}
          /\ (\E T \in DiscardInputs : DiscardAfter(T)) =>
                /\ UNCHANGED << slices, chunks >>
                /\ Range(accesses') \subseteq Range(accesses)
                /\ UNCHANGED << read_slice_builder, write_slice_builder, current_access_list >>
                /\ w_state' = "discarded"]_vars

\* C16 witness: take() was called after a discard_after that had rows to
\* flush, so that take()'s own flush found the log empty.
C16_Witness ==
    /\ w_state = "taken"
    /\ discarded # << >>
    /\ slices # << >>
    /\ current_access_list = << >>

\* An insert of at least one byte that does not run past the maximum address.
WellFormedInsert(address, size) == size >= 1 /\ address + size - 1 <= MaxAddr

\* The transition limit is unset, or at least 1.
NoZeroTransitionLimit(b) == ~ b.transition_limit.set \/ b.transition_limit.value >= 1

\* What the next insert(t, a, s) on the builder returns.
NextInsert(t, a, s) == insert(sb, Len(sb_hist) + 1, t, a, s)

\* Once the flag is raised: no insert clears it, a well-formed insert at
\* transition_last is accepted (where sameAccepted), an insert at a later
\* transition is refused and leaves the builder as it was.
StickyFrom(b, sameAccepted) ==
    (sb_phase = "building" /\ b.stop_at_next_transition) =>
        \A t \in Trans, a \in Addr, s \in SizeInputs :
            LET r == NextInsert(t, a, s)
            IN /\ r.b.stop_at_next_transition
               /\ (t = b.slice.transition_last /\ WellFormedInsert(a, s) /\ sameAccepted) =>
                     /\ r.status = "ok"
                     /\ r.b.access_count = b.access_count + 1
               /\ (t > b.slice.transition_last /\ s >= 1) =>
                     /\ r.status = "refused"
                     /\ r.b = b

\* C17 as stated: once stop_at_next_transition is raised, every later
\* well-formed insert at transition_last is accepted, every later insert at a
\* greater transition is refused, and the flag is never cleared.
C17_StickyFlag == StickyFrom(sb, TRUE)

\* C17 amended: the same, the acceptance at transition_last holding for a
\* builder whose transition limit is unset or at least 1. (A transition limit
\* of 0 refuses every insert into a non-empty builder, those at
\* transition_last too.)
C17_StickyFlagUnlessZeroTransitionLimit ==
    StickyFrom(sb, NoZeroTransitionLimit(sb))

\* C17 witness: with the flag raised, an insert was accepted although the
\* builder already held more accesses than its access count limit, in a chunk
\* over the overlap limit.
C17_Witness ==
    /\ sb_phase = "building" /\ NoZeroTransitionLimit(sb)
    /\ sb.stop_at_next_transition /\ sb_last = "ok"
    /\ sb.access_count_limit.set /\ sb.access_count > sb.access_count_limit.value + 1
    /\ sb.chunk_size_overlap_limit.set
    /\ \E k \in Keys(sb.slice.access_chunks) :
          sb.slice.access_chunks[k].size > sb.chunk_size_overlap_limit.value + 1

\* The chunks of the builder that share an address with [address, address + size - 1].
Overlapped(b, address, size) ==
    { k \in Keys(b.slice.access_chunks) :
        /\ b.slice.access_chunks[k].address_first <= address + size - 1
        /\ address <= b.slice.access_chunks[k].address_last }

\* 1 plus the sizes of all the chunks the access overlaps.
MergedCount(b, address, size) ==
    1 + SumSizes(b.slice.access_chunks, Overlapped(b, address, size))

\* The insert is refused for a reason other than the overlap limit.
RefusedOtherwise(b, t) ==
    \/ t > b.slice.transition_last /\ b.stop_at_next_transition
    \/ /\ t > b.slice.transition_last
       /\ b.access_count_limit.set /\ b.access_count >= b.access_count_limit.value
    \/ /\ b.transition_limit.set /\ Keys(b.slice.access_chunks) # {}
       /\ (t + TransMod - b.slice.transition_first + 1) % TransMod > b.transition_limit.value

\* C18: with an overlap limit L_o, a well-formed insert whose merged chunk
\* would hold more than L_o accesses is refused at a transition above
\* transition_last and accepted, raising the flag, at transition_last; an
\* insert whose merged count is at most L_o is not refused unless another
\* limit refuses it.
C18_OverlapLimit ==
    (sb_phase = "building" /\ sb.chunk_size_overlap_limit.set) =>
        \A t \in Trans, a \in Addr, s \in SizeInputs :
            WellFormedInsert(a, s) =>
                LET r == NextInsert(t, a, s)
                    over == MergedCount(sb, a, s) > sb.chunk_size_overlap_limit.value
                IN /\ (over /\ t > sb.slice.transition_last) => r.status = "refused"
                   /\ (over /\ t = sb.slice.transition_last) =>
                          r.status = "ok" /\ r.b.stop_at_next_transition
                   /\ (~ over /\ ~ RefusedOtherwise(sb, t)) => r.status # "refused"

\* With an access count limit L_a: accepted above transition_last only below
\* L_a; at L_a or above, the flag is raised at transition_last and the insert
\* accepted and counted (where sameAccepted), and refused above
\* transition_last (the count unchanged).
AccessCountLimitOf(b, sameAccepted) ==
    (sb_phase = "building" /\ b.access_count_limit.set) =>
        \A t \in Trans, a \in Addr, s \in SizeInputs :
            WellFormedInsert(a, s) =>
                LET r == NextInsert(t, a, s)
                    full == b.access_count >= b.access_count_limit.value
                IN /\ (t > b.slice.transition_last /\ r.status = "ok") => ~ full
                   /\ (full /\ t = b.slice.transition_last) =>
                         /\ r.b.stop_at_next_transition
                         /\ sameAccepted =>
                               /\ r.status = "ok"
                               /\ r.b.access_count = b.access_count + 1
                   /\ (full /\ t > b.slice.transition_last) =>
                         /\ r.status = "refused"
                         /\ r.b.access_count = b.access_count

\* C19 as stated, for every builder with an access count limit.
C19_AccessCountLimit == AccessCountLimitOf(sb, TRUE)

\* C19 amended: the same, the acceptance at transition_last holding for a
\* builder whose transition limit is unset or at least 1.
C19_AccessCountLimitUnlessZeroTransitionLimit ==
    AccessCountLimitOf(sb, NoZeroTransitionLimit(sb))

\* C19 witness: a builder holding twice its access count limit of at least 1,
\* the accesses beyond the limit taken at the current transition, has just
\* refused an insert.
C19_Witness ==
    /\ sb_phase = "building" /\ NoZeroTransitionLimit(sb)
    /\ sb.access_count_limit.set /\ sb.access_count_limit.value >= 1
    /\ sb.access_count >= 2 * sb.access_count_limit.value
    /\ sb.access_count = Len(sb_hist)
    /\ sb.stop_at_next_transition
    /\ sb_last = "refused"

\* C20: with a transition limit L_T >= 1, a builder that holds accesses spans
\* at most L_T transitions: transition_last - transition_first + 1 <= L_T.
C20_TransitionSpanWithinLimit ==
    (/\ sb_phase = "building"
     /\ sb.transition_limit.set /\ sb.transition_limit.value >= 1
     /\ Keys(sb.slice.access_chunks) # {}) =>
        sb.slice.transition_last - sb.slice.transition_first + 1 <= sb.transition_limit.value

\* One address interval ends exactly one byte before the other begins.
Adjacent(a, b) ==
    \/ a.address_last + 1 = b.address_first
    \/ b.address_last + 1 = a.address_first

\* The keys j < k of the map with no key in between.
Neighbours(m) ==
    { p \in Keys(m) \X Keys(m) :
        p[1] < p[2] /\ ~ \E x \in Keys(m) : p[1] < x /\ x < p[2] }

\* The two chunks may be fused under the touch limit.
WithinTouch(touch, a, b) == ~ touch.set \/ a.size + b.size <= touch.value

\* C21: insert gives the same answer whatever the touch limit and leaves every
\* chunk that shares no byte with the access as it was (touching chunks are not
\* fused); build() keeps every access, every chunk it creates by fusion holds
\* at most L_t accesses, and it leaves no two neighbouring chunks that are one
\* byte apart and of combined size <= L_t.
C21_TouchLimitOnlyAtBuild ==
    /\ sb_phase = "building" =>
          \A t \in Trans, a \in Addr, s \in SizeInputs :
              WellFormedInsert(a, s) =>
                  LET r == NextInsert(t, a, s)
                      m == sb.slice.access_chunks
                  IN /\ \A touch \in LimitChoices :
                            insert([sb EXCEPT !.chunk_size_touch_limit = touch],
                                   Len(sb_hist) + 1, t, a, s).status = r.status
                     /\ r.status = "ok" =>
                            \A k \in Keys(m) \ Overlapped(sb, a, s) :
                                /\ k \in Keys(r.b.slice.access_chunks)
                                /\ r.b.slice.access_chunks[k] = m[k]
    /\ sb_phase = "built" =>
          LET before == sb.slice.access_chunks
              after  == sb_slice.access_chunks
              touch  == sb.chunk_size_touch_limit
          IN /\ slice_access_count(sb_slice) = slice_access_count(sb.slice)
             /\ \A k \in Keys(after) :
                    \/ k \in Keys(before) /\ after[k] = before[k]
                    \/ ~ touch.set
                    \/ after[k].size <= touch.value
             /\ \A p \in Neighbours(after) :
                    ~ (Adjacent(after[p[1]], after[p[2]]) /\ WithinTouch(touch, after[p[1]], after[p[2]]))

\* C21 witness: under a touch limit of 2, three single-access chunks in a row
\* were built into two chunks that touch.
C21_Witness ==
    /\ sb_phase = "built"
    /\ sb.chunk_size_touch_limit = Some(2)
    /\ Cardinality(Keys(sb.slice.access_chunks)) = 3
    /\ \A k \in Keys(sb.slice.access_chunks) : sb.slice.access_chunks[k].size = 1
    /\ Cardinality(Keys(sb_slice.access_chunks)) = 2
    /\ \E p \in Neighbours(sb_slice.access_chunks) :
          Adjacent(sb_slice.access_chunks[p[1]], sb_slice.access_chunks[p[2]])

\* C22: in every builder state and under every limit configuration, insert
\* with size 0 throws invalid_argument, and so does insert into a non-empty
\* builder at a transition below transition_last; neither is refused or
\* accepted.
C22_MalformedInsertThrows ==
    sb_phase = "building" =>
        \A t \in Trans, a \in Addr :
            /\ NextInsert(t, a, 0).status = "invalid_argument"
            /\ (Keys(sb.slice.access_chunks) # {} /\ t < sb.slice.transition_last) =>
                  \A s \in 1 .. MaxSize : NextInsert(t, a, s).status = "invalid_argument"

\* C22 witness: an insert threw on a saturated builder that holds accesses
\* above transition 0 and has a transition limit.
C22_Witness ==
    /\ sb_phase = "building"
    /\ sb_last = "invalid_argument"
    /\ Keys(sb.slice.access_chunks) # {}
    /\ sb.slice.transition_last >= 1
    /\ sb.stop_at_next_transition
    /\ sb.transition_limit.set

\* C23: in every builder state and under every limit configuration, insert
\* with size > 0 throws invalid_argument when address + size - 1 is above the
\* maximum address, and an access ending exactly at the maximum address is not
\* rejected as a wrap (it throws only for going backward).
C23_WrapThrows ==
    sb_phase = "building" =>
        \A t \in Trans, a \in Addr, s \in 1 .. MaxSize :
            /\ a + s - 1 > MaxAddr => NextInsert(t, a, s).status = "invalid_argument"
            /\ (a + s - 1 = MaxAddr /\ NextInsert(t, a, s).status = "invalid_argument") =>
                  Keys(sb.slice.access_chunks) # {} /\ t < sb.slice.transition_last

\* Every access of the chunk has a size of at least 1 and ends at or below the
\* maximum address: the chunk's bounds are an interval.
IsInterval(c) ==
    /\ c.address_first <= c.address_last
    /\ \A x \in 1 .. Len(c.accesses) :
          /\ c.accesses[x].size >= 1
          /\ c.accesses[x].address + c.accesses[x].size - 1 <= MaxAddr

\* The two intervals share at least one byte.
ShareByte(a, b) == a.address_first <= b.address_last /\ b.address_first <= a.address_last

\* Both chunks are constructed, from accesses that are well-formed.
TwoIntervals == ck[1] # << >> /\ ck[2] # << >> /\ IsInterval(ck[1][1]) /\ IsInterval(ck[2][1])

\* C24: for any two chunks a and b, also one whose address_last is the maximum
\* address, a.overlaps(b) is true exactly when [a.first, a.last] and
\* [b.first, b.last] share a byte, and b.overlaps(a) gives the same answer.
C24_OverlapsIffShareByte ==
    TwoIntervals =>
        /\ overlaps(ck[1][1], ck[2][1]) <=> ShareByte(ck[1][1], ck[2][1])
        /\ overlaps(ck[1][1], ck[2][1]) <=> overlaps(ck[2][1], ck[1][1])

\* C25: for any two chunks a and b, a.is_contiguous(b) is true only if one
\* interval ends exactly one byte before the other begins; contiguous chunks
\* share no byte.
C25_ContiguousOnlyIfAdjacent ==
    (TwoIntervals /\ is_contiguous(ck[1][1], ck[2][1])) =>
        /\ Adjacent(ck[1][1], ck[2][1])
        /\ ~ ShareByte(ck[1][1], ck[2][1])

\* The nodes of a list are distinct.
DistinctNodes(l) == \A x, y \in 1 .. Len(l) : l[x].id = l[y].id => x = y

\* this.merge_in(other) succeeded: the sizes add, the bounds are the minimum
\* and the maximum of both, the list is the list of this followed by the list
\* of other, every node as it was and none twice.
Merged(this, other, result) ==
    /\ result.size = this.size + other.size
    /\ result.size = Len(result.accesses)
    /\ result.address_first = Min2(this.address_first, other.address_first)
    /\ result.address_last = Max2(this.address_last, other.address_last)
    /\ result.accesses = this.accesses \o other.accesses
    /\ DistinctNodes(result.accesses)

\* C26: a.merge_in(b) on any two chunks obtained by construction and earlier
\* merges never throws logic_error and leaves in a the sum of the sizes, the
\* union of the bounds and a's list followed by b's list, no node lost,
\* duplicated or changed.
C26_MergeInKeepsEveryAccess ==
    [][\A i \in 1 .. 2 :
          CkMergeIn(i) =>
              /\ ck_last' = "ok"
              /\ ck'[i] # << >>
              /\ Merged(ck[i][1], ck[3 - i][1], ck'[i][1])]_vars

\* C26 witness: a chunk that came out of a merge was merged into another
\* chunk, and before that took another chunk in.
C26_Witness ==
    /\ ck_last = "ok"
    /\ \E i \in 1 .. 2 :
          /\ ck[i] # << >> /\ ck[3 - i] = << >>
          /\ ck[i][1].size = 3
          /\ ck[i][1].accesses[1].id = 3

\* C27: constructing a chunk from (transition, address, size) fails with
\* invalid_argument when size = 0 or address + size - 1 is above the maximum
\* address, and otherwise gives a chunk of one access with
\* address_first = address, address_last = address + size - 1 and count 1.
C27_ChunkConstruction ==
    [][\A i \in 1 .. 2, transition \in ChunkTransitions, address \in Addr, size \in SizeInputs :
          CkConstruct(i, transition, address, size) =>
              IF size = 0 \/ address + size - 1 > MaxAddr
              THEN ck_last' = "invalid_argument" /\ ck'[i] = << >>
              ELSE /\ ck_last' = "ok"
                   /\ ck'[i] # << >>
                   /\ ck'[i][1].size = 1
                   /\ Len(ck'[i][1].accesses) = 1
                   /\ ck'[i][1].accesses[1].transition = transition
                   /\ ck'[i][1].accesses[1].address = address
                   /\ ck'[i][1].accesses[1].size = size
                   /\ ck'[i][1].address_first = address
                   /\ ck'[i][1].address_last = address + size - 1]_vars

\* The list holds its nodes in the order insert returned them (node ids are
\* given in arrival order), hence in non-decreasing transition order.
ArrivalOrder(l) ==
    \A x, y \in 1 .. Len(l) :
        x < y => l[x].id < l[y].id /\ l[x].transition <= l[y].transition

\* C28: in every chunk of a builder and of a built slice, the list from
\* accesses() on holds the chunk's accesses in arrival order, hence in
\* non-decreasing transition order, also after the merges of insert and of
\* build().
C28_ListInArrivalOrder ==
    /\ sb_phase = "building" =>
          \A k \in Keys(sb.slice.access_chunks) : ArrivalOrder(sb.slice.access_chunks[k].accesses)
    /\ sb_phase = "built" =>
          \A k \in Keys(sb_slice.access_chunks) : ArrivalOrder(sb_slice.access_chunks[k].accesses)

\* The step appended to the tables what a flush of the current builders
\* writes: one slice row, and for each chunk of the built read and write slices
\* one chunk row with that slice row's id and the builder's operation byte.
FlushWroteSliceAndChunks ==
    LET rs == build(read_slice_builder).access_chunks
        ws == build(write_slice_builder).access_chunks
        new == (Len(chunks) + 1) .. Len(chunks')
        rowsOf(c, operation) ==
            { i \in new : /\ chunks'[i].operation = operation
                          /\ chunks'[i].phy_first = c.address_first
                          /\ chunks'[i].phy_last = c.address_last }
    IN /\ Len(slices') = Len(slices) + 1
       /\ SubSeq(slices', 1, Len(slices)) = slices
       /\ Len(chunks') = Len(chunks) + Cardinality(Keys(rs)) + Cardinality(Keys(ws))
       /\ SubSeq(chunks', 1, Len(chunks)) = chunks
       /\ \A i \in new : chunks'[i].slice_id = Len(slices')
       /\ \A k \in Keys(rs) : Cardinality(rowsOf(rs[k], Read)) = 1
       /\ \A k \in Keys(ws) : Cardinality(rowsOf(ws[k], Write)) = 1

\* The step appended one access row per entry of the access log.
FlushWroteAccesses ==
    /\ Len(accesses') = Len(accesses) + Len(current_access_list)
    /\ SubSeq(accesses', 1, Len(accesses)) = accesses

\* Every flush of a non-empty access log writes its rows and empties the log.
FlushesWriteTheirRows ==
    current_access_list # << >> =>
        /\ (Take \/ Destroy) =>
              /\ FlushWroteSliceAndChunks
              /\ FlushWroteAccesses
              /\ current_access_list' = << >>
        /\ (\E T \in DiscardInputs : DiscardAfter(T)) =>
              /\ FlushWroteSliceAndChunks
              /\ Len(accesses') <= Len(accesses) + Len(current_access_list)
              /\ current_access_list' = << >>
        /\ \A a \in PushInputs :
              (a.operation \in {Read, Write} /\ Refuses(a) /\ Push(a)) =>
                  /\ FlushWroteSliceAndChunks
                  /\ FlushWroteAccesses
                  /\ Len(current_access_list') <= 1
                  /\ Len(current_access_list') = slice_access_count(read_slice_builder'.slice)
                                                   + slice_access_count(write_slice_builder'.slice)

\* C29: each flush with a non-empty access log adds exactly one slice row, one
\* chunk row per chunk of the built read and write slices (with that slice
\* row's id and its builder's operation byte) and one access row per log entry;
\* both builders are dropped together and the log is empty afterwards (after a
\* refused push the new pair holds the retried access only).
C29_FlushWritesOneSlice == [][FlushesWriteTheirRows]_vars

\* C30: a builder that holds no access never refuses a well-formed insert,
\* whatever the transition and the configuration of the limits.
C30_EmptyBuilderNeverRefuses ==
    (sb_phase = "building" /\ Keys(sb.slice.access_chunks) = {}) =>
        \A t \in Trans, a \in Addr, s \in SizeInputs :
            WellFormedInsert(a, s) => NextInsert(t, a, s).status # "refused"

\* Two inserted byte ranges share a byte or, where adjacentToo, are one byte
\* apart.
Related(x, y, adjacentToo) ==
    \/ x.address <= y.address + y.size - 1 /\ y.address <= x.address + x.size - 1
    \/ /\ adjacentToo
       /\ \/ x.address + x.size = y.address
          \/ y.address + y.size = x.address

RECURSIVE ComponentOf(_, _, _)
\* The positions of hist connected to those of S by a chain of related ranges.
ComponentOf(S, hist, adjacentToo) ==
    LET grown == S \cup { j \in 1 .. Len(hist) :
                            \E i \in S : Related(hist[i], hist[j], adjacentToo) }
    IN IF grown = S THEN S ELSE ComponentOf(grown, hist, adjacentToo)

\* The connected components of the inserted ranges, as sets of node ids.
Components(hist, adjacentToo) ==
    { { hist[j].id : j \in ComponentOf({i}, hist, adjacentToo) } : i \in 1 .. Len(hist) }

\* The chunks of the map are exactly the components: one chunk per component,
\* holding its members once each, its range their hull and its size their
\* number.
ChunksAreComponents(m, hist, adjacentToo) ==
    /\ { { m[k].accesses[i].id : i \in 1 .. Len(m[k].accesses) } : k \in Keys(m) }
          = Components(hist, adjacentToo)
    /\ Cardinality(Keys(m)) = Cardinality(Components(hist, adjacentToo))
    /\ \A k \in Keys(m) :
          LET c == m[k]
              members == { hist[j] : j \in { x \in 1 .. Len(hist) :
                                 \E i \in 1 .. Len(c.accesses) : c.accesses[i].id = hist[x].id } }
          IN /\ c.size = Cardinality(members)
             /\ Len(c.accesses) = c.size
             /\ k = c.address_first
             /\ \A x \in members : c.address_first <= x.address
                                   /\ x.address + x.size - 1 <= c.address_last
             /\ \E x \in members : x.address = c.address_first
             /\ \E x \in members : x.address + x.size - 1 = c.address_last

\* No limit is configured on the builder.
NoLimit(b) ==
    /\ ~ b.chunk_size_overlap_limit.set /\ ~ b.chunk_size_touch_limit.set
    /\ ~ b.transition_limit.set /\ ~ b.access_count_limit.set

\* C31: for a builder with no limit and any sequence of well-formed inserts,
\* the chunks before build() are exactly the connected components of the
\* inserted byte ranges under 'shares a byte', and the chunks after build()
\* exactly the components under 'shares a byte or is adjacent'.
C31_ChunksAreComponents ==
    NoLimit(sb) =>
        /\ sb_phase = "building" => ChunksAreComponents(sb.slice.access_chunks, sb_hist, FALSE)
        /\ sb_phase = "built" => ChunksAreComponents(sb_slice.access_chunks, sb_hist, TRUE)

\* The nodes owned by the chunks of a builder.
OwnedNodes(b) == { x[2] : x \in NodesOf(b.slice.access_chunks) }

\* C32: in every Writer state between operations, before any discard_after,
\* the access log is as long as the two builders' access counts together, it
\* is empty exactly when both builders hold no chunk, and every logged handle
\* designates a node owned by a chunk of one of the two builders.
C32_LogMatchesBuilders ==
    w_state = "open" =>
        /\ Len(current_access_list)
              = read_slice_builder.access_count + write_slice_builder.access_count
        /\ current_access_list = << >>
              <=> /\ Keys(read_slice_builder.slice.access_chunks) = {}
                  /\ Keys(write_slice_builder.slice.access_chunks) = {}
        /\ \A i \in 1 .. Len(current_access_list) :
              current_access_list[i].chunk_access
                 \in OwnedNodes(read_slice_builder) \cup OwnedNodes(write_slice_builder)

\* C33: an insert that throws invalid_argument (size 0, address wrap, backward
\* transition) leaves the whole builder as it was: chunk map, access_count,
\* transition_first, transition_last and stop_at_next_transition.
C33_ThrowingInsertChangesNothing ==
    sb_phase = "building" =>
        \A t \in Trans, a \in Addr, s \in SizeInputs :
            NextInsert(t, a, s).status = "invalid_argument" => NextInsert(t, a, s).b = sb

\* C34: a refused insert leaves the builder's chunk map, access_count,
\* transition_first, transition_last and sticky flag as they were, so that
\* build() then gives the slice of the accesses accepted before.
C34_RefusedInsertChangesNothing ==
    sb_phase = "building" =>
        \A t \in Trans, a \in Addr, s \in SizeInputs :
            NextInsert(t, a, s).status = "refused" =>
                /\ NextInsert(t, a, s).b = sb
                /\ build(NextInsert(t, a, s).b) = build(sb)

\* C35: a push that throws invalid_argument has no effect: no flush, no row
\* written, the access log and both builders as they were.
C35_ThrowingPushChangesNothing ==
    [][\A a \in PushInputs :
          (Push(a) /\ w_last' = "invalid_argument") =>
              /\ UNCHANGED << slices, chunks, accesses >>
              /\ UNCHANGED << current_access_list, read_slice_builder, write_slice_builder >>]_vars

====
